---- MODULE Spec2Model ----
(***************************************************************************)
(* PiMO RSS -> Discord relay (rss2discord.py): a model of main() as a      *)
(* state machine.  One run = configuration, load of the dedup store and    *)
(* the metadata cache, the concurrent fetch phase on a bounded thread      *)
(* pool with a timed wait, merge and sort, the sequential publish loop     *)
(* and persistence.  Runs repeat (cron) over the same files on disk.       *)
(***************************************************************************)
EXTENDS Integers, Sequences, FiniteSets, Bags, TLC

(***************************************************************************)
(* Bounds of the model                                                     *)
(***************************************************************************)
MaxRuns == 2

(***************************************************************************)
(* Optional values.  Python's None for an Optional[int] is the empty       *)
(* tuple and a present value v is <<v>>; an absent header or validator is  *)
(* the string "None".                                                      *)
(***************************************************************************)
NoTs == <<>>
Ts(v) == <<v>>
None == "None"

(***************************************************************************)
(* Configuration values: a key of the config file is unset, holds text     *)
(* that int() rejects, or holds a decimal integer.                         *)
(***************************************************************************)
Unset == [kind |-> "unset"]
BadInt == [kind |-> "bad"]
IntVal(n) == [kind |-> "int", v |-> n]

(***************************************************************************)
(* Feed entries of the configuration and their normal forms                *)
(***************************************************************************)
RedditA == "https://www.reddit.com/r/a/.rss"
FeedB == "http://b/feed"
FeedC == "http://c/feed"

ArenaCh == "https://www.are.na/u/ch"
ArenaChRss == "https://www.are.na/u/ch.rss"

\* normalize_feed_entry: the r/<sub> short form, with or without a trailing
\* slash, expands to the subreddit's feed; an Are.na URL whose path does not
\* end in .rss gets .rss appended; any other entry of the model's universe
\* is returned as it is.
normalize_feed_entry(entry) ==
    IF entry \in {"r/a", "r/a/"} THEN RedditA
    ELSE IF entry = ArenaCh THEN ArenaChRss
    ELSE entry

\* main, lines 469-477: normalize, drop empty and repeated values, keep order.
RECURSIVE NormalizeFrom(_, _, _)
NormalizeFrom(raw, i, norm) ==
    IF i > Len(raw) THEN norm
    ELSE LET ne == normalize_feed_entry(raw[i])
         IN IF ne # "" /\ ne \notin {norm[j] : j \in DOMAIN norm}
            THEN NormalizeFrom(raw, i + 1, Append(norm, ne))
            ELSE NormalizeFrom(raw, i + 1, norm)

\* a feed list that is normalized but keeps repeated values
NormalizeFeedsNoDedup(raw) == [i \in DOMAIN raw |-> normalize_feed_entry(raw[i])]

NormalizeFeeds(raw) == NormalizeFrom(raw, 1, <<>>)

\* main, lines 461-468: the entries of FEEDS, then the lines of FEEDS_FILE,
\* then the lines of the files of FEEDS_DIR in sorted file-name order
RawFeeds(c) == c.FEEDS \o c.FEEDS_FILE \o c.FEEDS_DIR

DefaultMaxPerRun == 5
MinMaxPerRun == 1
\* main, lines 482-487
MaxPerRunOf(c) ==
    IF c.MAX_PER_RUN.kind = "int"
    THEN IF c.MAX_PER_RUN.v > MinMaxPerRun THEN c.MAX_PER_RUN.v ELSE MinMaxPerRun
    ELSE DefaultMaxPerRun

DefaultMaxConc == 8
MinConc == 1
MaxConcCeil == 32
\* main, lines 499-507
MaxConcOf(c) ==
    IF c.MAX_CONCURRENCY.kind = "int"
    THEN IF c.MAX_CONCURRENCY.v < MinConc THEN MinConc
         ELSE IF c.MAX_CONCURRENCY.v > MaxConcCeil THEN MaxConcCeil
         ELSE c.MAX_CONCURRENCY.v
    ELSE DefaultMaxConc

\* The configurations a behaviour may start from.
Configs ==
    { [WEBHOOK_URL |-> "", FEEDS |-> <<"r/a">>,
       FEEDS_FILE |-> <<>>, FEEDS_DIR |-> <<>>,
       MAX_PER_RUN |-> Unset, MAX_CONCURRENCY |-> Unset],
      [WEBHOOK_URL |-> "hook", FEEDS |-> <<>>,
       FEEDS_FILE |-> <<>>, FEEDS_DIR |-> <<>>,
       MAX_PER_RUN |-> Unset, MAX_CONCURRENCY |-> Unset],
      [WEBHOOK_URL |-> "hook", FEEDS |-> <<"r/a">>,
       FEEDS_FILE |-> <<FeedB>>, FEEDS_DIR |-> <<RedditA>>,
       MAX_PER_RUN |-> IntVal(2), MAX_CONCURRENCY |-> IntVal(1)],
      [WEBHOOK_URL |-> "hook", FEEDS |-> <<FeedB>>,
       FEEDS_FILE |-> <<>>, FEEDS_DIR |-> <<"r/a">>,
       MAX_PER_RUN |-> IntVal(0), MAX_CONCURRENCY |-> IntVal(40)],
      [WEBHOOK_URL |-> "hook", FEEDS |-> <<FeedB>>,
       FEEDS_FILE |-> <<>>, FEEDS_DIR |-> <<>>,
       MAX_PER_RUN |-> Unset, MAX_CONCURRENCY |-> BadInt] }

(***************************************************************************)
(* Feed items and the dedup key                                            *)
(***************************************************************************)
\* class FeedItem
FeedItem(feed_url, unique_id, title, link, published_ts) ==
    [feed_url |-> feed_url, unique_id |-> unique_id, title |-> title,
     link |-> link, published_ts |-> published_ts]

\* An <item> element of a feed document: guid, title, link and the parsed
\* pubDate (absent or unparsable dates are NoTs).
Entry(guid, title, link, ts) ==
    [guid |-> guid, title |-> title, link |-> link, ts |-> ts]

\* A response body: well-formed XML with its entries, or bytes that
\* ET.fromstring rejects.
Xml(entries) == [wf |-> TRUE, entries |-> entries]
Malformed == [wf |-> FALSE, entries |-> <<>>]
NoBody == Xml(<<>>)

\* parse_feed: malformed XML gives no items; otherwise one FeedItem per
\* entry, its identifier being guid, else link, else title.
parse_feed(feed_url, xml) ==
    IF ~xml.wf THEN <<>>
    ELSE [i \in DOMAIN xml.entries |->
            LET e == xml.entries[i]
                uid == IF e.guid # "" THEN e.guid
                       ELSE IF e.link # "" THEN e.link ELSE e.title
            IN FeedItem(feed_url, uid, e.title, e.link, e.ts)]

\* The SHA-1 digest of "feed_url\nunique_id\nlink\ntitle" is modelled as an
\* injective scrambling of the four fields into a number (a positional code
\* of the fields, multiplied modulo a prime); digests compare as their hex
\* strings do.
FieldCode(s) ==
    CASE s = RedditA -> 1
      [] s = FeedB -> 2
      [] s = FeedC -> 3
      [] s = "g1" -> 1
      [] s = "g2" -> 2
      [] s = "l1" -> 3
      [] s = "l2" -> 4
      [] s = "t1" -> 5
      [] s = "t2" -> 6
      [] OTHER -> 0

compute_seen_key(item) ==
    (((((FieldCode(item.feed_url) * 7 + FieldCode(item.unique_id)) * 7)
        + FieldCode(item.link)) * 7 + FieldCode(item.title)) * 1000) % 1499

\* a sort key that puts undated items below every dated one
sort_key_undated_lowest(it) ==
    [ts |-> IF it.published_ts # NoTs THEN it.published_ts[1] ELSE -1000000,
     key |-> compute_seen_key(it)]

\* a sort key without the SeenKey tie-break
sort_key_ts_only(it) ==
    [ts |-> IF it.published_ts # NoTs THEN it.published_ts[1] ELSE 0,
     key |-> 0]

\* sort_key, lines 592-594: (published_ts or 0, SeenKey)
sort_key(it) ==
    [ts |-> IF it.published_ts # NoTs THEN it.published_ts[1] ELSE 0,
     key |-> compute_seen_key(it)]

\* Python's tuple comparison of two sort keys
KeyLess(a, b) == a.ts < b.ts \/ (a.ts = b.ts /\ a.key < b.key)

\* list.sort(key=sort_key, reverse=True), line 596: a stable sort, so items
\* with equal sort keys keep the order in which they were merged.
RECURSIVE InsertDesc(_, _)
InsertDesc(sorted, it) ==
    IF sorted = <<>> THEN <<it>>
    ELSE IF KeyLess(sort_key(Head(sorted)), sort_key(it))
         THEN <<it>> \o sorted
         ELSE <<Head(sorted)>> \o InsertDesc(Tail(sorted), it)

RECURSIVE SortFrom(_, _, _)
SortFrom(items, i, acc) ==
    IF i > Len(items) THEN acc
    ELSE SortFrom(items, i + 1, InsertDesc(acc, items[i]))

SortNewestFirst(items) == SortFrom(items, 1, <<>>)

(***************************************************************************)
(* The feed servers                                                        *)
(***************************************************************************)
\* Response headers: the two validators (None when the header is absent)
\* and whether the dict holds any other header.  {} is EmptyDict.
Hdr(etag, lm) == [etag |-> etag, lm |-> lm, other |-> TRUE]
EmptyDict == [etag |-> None, lm |-> None, other |-> FALSE]

\* What a server does with one GET: status 0 stands for a transport error
\* (urlopen raises URLError, no response at all).
Reply(status, body, headers) ==
    [status |-> status, body |-> body, headers |-> headers]

EntryA1 == Entry("g1", "t1", "l1", Ts(2))
EntryA1Old == Entry("g1", "t1", "l1", Ts(1))
EntryA2 == Entry("g2", "t2", "l2", NoTs)
EntryB1 == Entry("g1", "t1", "l1", Ts(2))
EntryB2 == Entry("", "t2", "l2", Ts(-1))

RepliesOf(url) ==
    { Reply(0, NoBody, EmptyDict),
      Reply(500, NoBody, Hdr("e2", None)),
      Reply(304, NoBody, Hdr(None, None)),
      Reply(304, NoBody, Hdr("e2", None)),
      Reply(200, Malformed, Hdr("e2", None)) }
    \cup (IF url = RedditA
          THEN { Reply(200, Xml(<<EntryA1, EntryA2>>), Hdr("e2", "m2")),
                 Reply(200, Xml(<<EntryA1Old, EntryA1>>), Hdr(None, "m2")) }
          ELSE { Reply(200, Xml(<<EntryB1>>), Hdr(None, None)),
                 Reply(200, Xml(<<EntryB2, EntryB1>>), Hdr("e2", None)) })

\* http_get_conditional: a transport error propagates to the caller; every
\* HTTP answer, 304 and error statuses included, is returned with its headers.
http_get_conditional(reply) ==
    [raised |-> reply.status = 0, status |-> reply.status,
     body |-> IF reply.status = 304 THEN NoBody ELSE reply.body,
     headers |-> reply.headers]

\* worker, lines 527-554: the triple a fetch task returns, and whether it
\* logged "fetch error for <url>".
worker(url, reply) ==
    LET r == http_get_conditional(reply)
    IN  IF r.raised
        THEN [url |-> url, items |-> <<>>, headers |-> EmptyDict, failed |-> TRUE]
        ELSE IF r.status = 304
        THEN [url |-> url, items |-> <<>>, headers |-> r.headers, failed |-> FALSE]
        ELSE IF r.status # 200
        THEN [url |-> url, items |-> <<>>, headers |-> EmptyDict, failed |-> TRUE]
        ELSE [url |-> url, items |-> parse_feed(url, r.body),
              headers |-> r.headers, failed |-> FALSE]

(***************************************************************************)
(* The metadata cache: a dict from feed URL to {etag, last_modified}       *)
(***************************************************************************)
MetaEntry(etag, lm) == [etag |-> etag, last_modified |-> lm]
NoEntry == MetaEntry(None, None)

\* meta.get(url) or {}, read field by field
MetaGet(m, url) == IF url \in DOMAIN m THEN m[url] ELSE NoEntry

MetaPut(m, url, e) ==
    [u \in DOMAIN m \cup {url} |-> IF u = url THEN e ELSE m[u]]

\* storing the response's validators as they are, absent ones included
MergeHeadersNoKeep(m, url, headers) ==
    IF headers # EmptyDict /\ (headers.etag # None \/ headers.lm # None)
    THEN MetaPut(m, url, MetaEntry(headers.etag, headers.lm))
    ELSE m

\* rebinding meta to a dict that holds only the entry just updated
MergeHeadersReplace(m, url, headers) ==
    IF headers # EmptyDict /\ (headers.etag # None \/ headers.lm # None)
    THEN [u \in {url} |->
            MetaEntry(IF headers.etag # None THEN headers.etag
                      ELSE MetaGet(m, url).etag,
                      IF headers.lm # None THEN headers.lm
                      ELSE MetaGet(m, url).last_modified)]
    ELSE m

\* main, lines 563-570: what collecting one result does to the dict
MergeHeaders(m, url, headers) ==
    IF headers # EmptyDict /\ (headers.etag # None \/ headers.lm # None)
    THEN MetaPut(m, url,
           MetaEntry(IF headers.etag # None THEN headers.etag
                     ELSE MetaGet(m, url).etag,
                     IF headers.lm # None THEN headers.lm
                     ELSE MetaGet(m, url).last_modified))
    ELSE m

EmptyMeta == [u \in {} |-> NoEntry]
InitialMetas ==
    { EmptyMeta,
      [u \in {RedditA, FeedC} |->
          IF u = RedditA THEN MetaEntry("e1", "m1") ELSE MetaEntry("e1", None)] }

(***************************************************************************)
(* The webhook sink and the publisher                                      *)
(***************************************************************************)
\* One answer of the sink to a POST: the status (0 for a transport error,
\* where urlopen raises URLError) and the Retry-After header, which is
\* absent, not a number, or a number of seconds.
Answer(code, retry_after) == [code |-> code, retry_after |-> retry_after]
RaAbsent == [kind |-> "absent", v |-> 0]
RaBad == [kind |-> "bad", v |-> 0]
RaNum(n) == [kind |-> "num", v |-> n]

FirstAnswers ==
    { Answer(204, RaAbsent), Answer(500, RaAbsent), Answer(0, RaAbsent),
      Answer(429, RaAbsent), Answer(429, RaNum(2)) }
SecondAnswers ==
    { Answer(200, RaAbsent), Answer(429, RaNum(2)), Answer(0, RaAbsent) }

\* http_post_json: an HTTP error status is returned, a transport error raises.
http_post_json(answer) == [raised |-> answer.code = 0, code |-> answer.code]

\* a test of the status that forgets 204 No Content
SuccessOnly200(code) == code = 200

\* lines 409 and 421: the sink took the message
Success(code) == code = 204 \/ code = 200

\* post_with_retry, lines 411-419: the seconds slept before the retry
RetryDelay(retry_after) ==
    LET ra == IF retry_after.kind = "absent" THEN 0
              ELSE IF retry_after.kind = "bad" THEN 1
              ELSE retry_after.v
        lo == IF ra > 0 THEN ra ELSE 0
    IN IF lo < 10 THEN lo ELSE 10

\* post_with_retry: the POSTs issued (their status codes), the seconds slept
\* (<<>> if it never slept, else <<seconds>>), whether it logged a failure, and how it
\* ended: it returned True, returned False, or an exception left it.
post_with_retry(first, second) ==
    LET p1 == http_post_json(first)
        p2 == http_post_json(second)
    IN  IF p1.raised
        THEN [codes |-> <<0>>, slept |-> <<>>, logged |-> FALSE,
              ok |-> FALSE, raised |-> TRUE]
        ELSE IF Success(p1.code)
        THEN [codes |-> <<p1.code>>, slept |-> <<>>, logged |-> FALSE,
              ok |-> TRUE, raised |-> FALSE]
        ELSE IF p1.code = 429
        THEN [codes |-> <<p1.code, p2.code>>,
              slept |-> <<RetryDelay(first.retry_after)>>,
              logged |-> ~p2.raised /\ ~Success(p2.code),
              ok |-> ~p2.raised /\ Success(p2.code),
              raised |-> p2.raised]
        ELSE [codes |-> <<p1.code>>, slept |-> <<>>, logged |-> TRUE,
              ok |-> FALSE, raised |-> FALSE]

(***************************************************************************)
(* Files on disk                                                           *)
(***************************************************************************)
\* How a write of a state file ends: the new content is in place (by the
\* atomic replace or by the direct-write fallback), or both writes failed
\* and the file is as it was, or the fallback's open() truncated the file
\* before its write failed.
DiskOutcomes == {"written", "unchanged", "truncated"}

\* save_seen: what the store file holds afterwards
save_seen(old, new, outcome) ==
    IF outcome = "written" THEN new
    ELSE IF outcome = "unchanged" THEN old
    ELSE {}

\* save_meta followed by the next load_meta: a truncated file loads as {}
save_meta(old, new, outcome) ==
    IF outcome = "written" THEN new
    ELSE IF outcome = "unchanged" THEN old
    ELSE EmptyMeta

(***************************************************************************)
(* The log: a bag of events                                                *)
(***************************************************************************)
LogEv(ev, url, key) == [ev |-> ev, url |-> url, key |-> key]
Logged(bag, e) == bag (+) SetToBag({e})

(***************************************************************************)
(* State                                                                   *)
(***************************************************************************)
VARIABLES
    cfg,          \* the configuration file
    disk_seen,    \* the dedup store file: a set of SeenKeys
    disk_meta,    \* the metadata cache file, as load_meta reads it
    write_failed, \* history: some save_seen call left the store file without the new content
    run,          \* number of runs started
    pc,           \* where the coordinator (main) is
    exit_code,    \* outcome of the last run: 0, 2, 1 (uncaught exception), -1 running
    feeds,        \* main's normalized feed list
    meta,         \* main's meta dict
    seen,         \* main's seen set
    new_seen,     \* main's new_seen set
    all_items,    \* main's all_items list
    task,         \* the futures of this run, in submission order
    done,         \* cf.wait's done set (indices of task)
    not_done,     \* cf.wait's not_done set
    collected,    \* futures of done the first loop has handled
    cancel_iter,  \* futures of not_done the second loop has handled
    idx,          \* position of the publish loop in all_items
    posted,       \* main's posted counter
    posts,        \* history: the post_with_retry calls of this run
    fetched,      \* history: the server's reply behind each collected result
    acked_before, \* history: keys acknowledged with 200/204 in earlier runs
    log,          \* log lines of this run
    writes,       \* history: the files this run has called save_seen / save_meta on
    args,         \* a function called on its own: its name and arguments
    ret,          \* ... and what it returned
    services_file,\* rotator: the services of the services file, in file order
    rot_cfg,      \* rotator: the configuration file
    rot_state,    \* rotator: the state file, as load_state reads it
    clock,        \* rotator: what time.time() returns, in seconds
    active,       \* rotator: the units systemd has running
    cmds,         \* rotator: the systemctl calls of the run that has just ended
    last          \* rotator: the locals of main when that run returned

vars == <<cfg, disk_seen, disk_meta, write_failed, run, pc, exit_code, feeds,
          meta, seen, new_seen, all_items, task, done, not_done, collected, cancel_iter,
          idx, posted, posts, fetched, acked_before, log, writes, args, ret,
          services_file, rot_cfg, rot_state, clock, active, cmds, last>>

disk == <<disk_seen, disk_meta, write_failed>>
pool == <<task, done, not_done, collected, cancel_iter>>
calls == <<args, ret>>
rotator == <<services_file, rot_cfg, rot_state, clock, active, cmds, last>>

\* no function is being called on its own
NoArgs == [fn |-> "none"]
NoRet == [returned |-> FALSE]
publish == <<idx, posted, posts>>

NoReply == Reply(-1, NoBody, EmptyDict)
NoResult == [url |-> "", items |-> <<>>, headers |-> EmptyDict, failed |-> FALSE]

Running(t) == {i \in DOMAIN t : t[i].st = "running"}
Finished(t) == {i \in DOMAIN t : t[i].st = "finished"}

AckedIn(ps) == {ps[i].key : i \in {j \in DOMAIN ps : ps[j].ok}}

\* the relay before its first run
RelayInit ==
    /\ cfg \in Configs
    /\ disk_seen = {}
    /\ disk_meta \in InitialMetas
    /\ write_failed = FALSE
    /\ run = 0
    /\ pc = "idle"
    /\ exit_code = -1
    /\ feeds = <<>>
    /\ meta = EmptyMeta
    /\ seen = {}
    /\ new_seen = {}
    /\ all_items = <<>>
    /\ task = <<>>
    /\ done = {}
    /\ not_done = {}
    /\ collected = {}
    /\ cancel_iter = {}
    /\ idx = 1
    /\ posted = 0
    /\ posts = <<>>
    /\ fetched = <<>>
    /\ acked_before = {}
    /\ log = EmptyBag
    /\ writes = {}

(***************************************************************************)
(* The rotator's files and clock (pimo_rotator.py)                         *)
(***************************************************************************)
\* load_state, read as main reads it (lines 202-204): a missing key, a
\* missing file and a file that is not JSON all give 0
RotState(epoch_ts, services_count, slice_seconds) ==
    [epoch_ts |-> epoch_ts, services_count |-> services_count,
     slice_seconds |-> slice_seconds]
NoState == RotState(0, 0, 0)

\* the locals of main when it returned; ran is FALSE when no run has just
\* ended
RunOf(n, slice_s, before, epoch, now, i, reset) ==
    [ran |-> TRUE, n |-> n, slice_s |-> slice_s, before |-> before,
     epoch |-> epoch, now |-> now, idx |-> i, reset |-> reset]
NoRun ==
    [ran |-> FALSE, n |-> 0, slice_s |-> 0, before |-> NoState,
     epoch |-> 0, now |-> 0, idx |-> 0, reset |-> FALSE]
\* main returned at line 193: no services to rotate
EmptyRun == [NoRun EXCEPT !.ran = TRUE]

\* the clock when the host comes up, in seconds since the epoch
Boot == 1000

\* the rotator is not installed: nothing of it ever changes
RotatorIdle ==
    /\ services_file = <<>>
    /\ rot_cfg = [ROTATION_PERIOD_MINUTES |-> Unset, MIN_SLICE_SECONDS |-> Unset]
    /\ rot_state = NoState
    /\ clock = Boot
    /\ active = {}
    /\ cmds = <<>>
    /\ last = NoRun

Init ==
    /\ RelayInit
    /\ RotatorIdle
    /\ args = NoArgs
    /\ ret = NoRet

(***************************************************************************)
(* main: configuration (lines 449-522)                                     *)
(***************************************************************************)
\* cron starts the next run once the previous process has ended
CanStart == pc \in {"idle", "exited"} /\ run < MaxRuns

\* a new process: every local of main is fresh
FreshLocals ==
    /\ meta' = EmptyMeta
    /\ seen' = {}
    /\ new_seen' = {}
    /\ all_items' = <<>>
    /\ task' = <<>>
    /\ done' = {}
    /\ not_done' = {}
    /\ collected' = {}
    /\ cancel_iter' = {}
    /\ idx' = 1
    /\ posted' = 0
    /\ posts' = <<>>
    /\ fetched' = <<>>
    /\ writes' = {}

\* an early return that saves the still empty meta dict on its way out
RunNoWebhookSavingMeta ==
    /\ CanStart
    /\ cfg.WEBHOOK_URL = ""
    /\ run' = run + 1
    /\ FreshLocals
    /\ feeds' = <<>>
    /\ acked_before' = acked_before \cup AckedIn(posts)
    /\ log' = SetToBag({LogEv("no WEBHOOK_URL configured", "", 0)})
    /\ exit_code' = 2
    /\ pc' = "exited"
    /\ disk_meta' = save_meta(disk_meta, EmptyMeta, "written")
    /\ UNCHANGED <<cfg, calls, rotator, disk_seen, write_failed>>

\* lines 455-458: no WEBHOOK_URL, return 2
RunNoWebhook ==
    /\ CanStart
    /\ cfg.WEBHOOK_URL = ""
    /\ run' = run + 1
    /\ FreshLocals
    /\ feeds' = <<>>
    /\ acked_before' = acked_before \cup AckedIn(posts)
    /\ log' = SetToBag({LogEv("no WEBHOOK_URL configured", "", 0)})
    /\ exit_code' = 2
    /\ pc' = "exited"
    /\ UNCHANGED <<cfg, calls, rotator, disk>>

\* lines 460-480: the feed list is empty after normalization, return 2
RunNoFeeds ==
    /\ CanStart
    /\ cfg.WEBHOOK_URL # ""
    /\ NormalizeFeeds(RawFeeds(cfg)) = <<>>
    /\ run' = run + 1
    /\ FreshLocals
    /\ feeds' = <<>>
    /\ acked_before' = acked_before \cup AckedIn(posts)
    /\ log' = SetToBag({LogEv("no FEEDS configured", "", 0)})
    /\ exit_code' = 2
    /\ pc' = "exited"
    /\ UNCHANGED <<cfg, calls, rotator, disk>>

\* lines 460-522: a valid configuration; load the metadata cache and the
\* dedup store
RunSetup ==
    /\ CanStart
    /\ cfg.WEBHOOK_URL # ""
    /\ NormalizeFeeds(RawFeeds(cfg)) # <<>>
    /\ run' = run + 1
    /\ feeds' = NormalizeFeeds(RawFeeds(cfg))
    /\ meta' = disk_meta
    /\ seen' = disk_seen
    /\ new_seen' = disk_seen
    /\ all_items' = <<>>
    /\ task' = <<>>
    /\ done' = {}
    /\ not_done' = {}
    /\ collected' = {}
    /\ cancel_iter' = {}
    /\ idx' = 1
    /\ posted' = 0
    /\ posts' = <<>>
    /\ fetched' = <<>>
    /\ writes' = {}
    /\ acked_before' = acked_before \cup AckedIn(posts)
    /\ log' = EmptyBag
    /\ exit_code' = -1
    /\ pc' = "submit"
    /\ UNCHANGED <<cfg, calls, rotator, disk>>

(***************************************************************************)
(* main: the fetch phase (lines 556-585)                                   *)
(***************************************************************************)
\* line 557: one ex.submit(worker, u) per element of feeds
SubmitAll(fs) ==
    [i \in DOMAIN fs |->
        [url |-> fs[i], st |-> "pending", sent |-> NoEntry,
         reply |-> NoReply, result |-> NoResult]]

Submit ==
    /\ pc = "submit"
    /\ task' = SubmitAll(feeds)
    /\ pc' = "wait"
    /\ UNCHANGED <<cfg, calls, rotator, writes, disk, run, exit_code, feeds, meta, seen, new_seen,
                   all_items, done, not_done, collected, cancel_iter,
                   publish, fetched, acked_before, log>>

\* a pool that starts one thread too many
WorkerFreeOffByOne(t, c) == Cardinality(Running(t)) <= MaxConcOf(c)

\* line 556, ThreadPoolExecutor(max_workers=max_conc): a queued task starts
\* only while fewer than max_conc worker threads are busy
WorkerFree(t, c) == Cardinality(Running(t)) < MaxConcOf(c)

\* the executor's queue is first in, first out
HeadOfQueue(t, i) ==
    /\ t[i].st = "pending"
    /\ \A j \in DOMAIN t : j < i => t[j].st # "pending"

\* worker, lines 528-535: a task starts and reads its validators from meta
StartTask(i) ==
    /\ pc \in {"wait", "collect"}
    /\ HeadOfQueue(task, i)
    /\ WorkerFree(task, cfg)
    /\ task' = [task EXCEPT ![i].st = "running",
                            ![i].sent = MetaGet(meta, task[i].url)]
    /\ UNCHANGED <<cfg, calls, rotator, writes, disk, run, pc, exit_code, feeds, meta, seen, new_seen,
                   all_items, done, not_done, collected, cancel_iter,
                   publish, fetched, acked_before, log>>

\* worker, lines 536-554: the server answers (or not) and the task returns
FinishTask(i) ==
    /\ pc \in {"wait", "collect"}
    /\ i \in DOMAIN task
    /\ task[i].st = "running"
    /\ \E reply \in RepliesOf(task[i].url) :
         LET res == worker(task[i].url, reply)
         IN /\ task' = [task EXCEPT ![i].st = "finished",
                                    ![i].reply = reply,
                                    ![i].result = res]
            /\ log' = IF res.failed
                      THEN Logged(log, LogEv("fetch error", task[i].url, 0))
                      ELSE log
    /\ UNCHANGED <<cfg, calls, rotator, writes, disk, run, pc, exit_code, feeds, meta, seen, new_seen,
                   all_items, done, not_done, collected, cancel_iter,
                   publish, fetched, acked_before>>

\* line 558: cf.wait returns when every future is finished or when the
\* fetch budget has run out, whichever is first
WaitReturn ==
    /\ pc = "wait"
    /\ done' = Finished(task)
    /\ not_done' = DOMAIN task \ Finished(task)
    /\ pc' = "collect"
    /\ UNCHANGED <<cfg, calls, rotator, writes, disk, run, exit_code, feeds, meta, seen, new_seen,
                   all_items, task, collected, cancel_iter, publish,
                   fetched, acked_before, log>>

\* a loop over every future that has a result by now
ResultsOfFinished(d, t) == Finished(t)

\* line 559: the results taken are those of the futures in cf.wait's done set
ResultsOfDone(d, t) == d

\* lines 559-574: one iteration of "for fut in done" (a set: any order)
Collect(i) ==
    /\ pc = "collect"
    /\ i \in ResultsOfDone(done, task) \ collected
    /\ all_items' = all_items \o task[i].result.items
    /\ meta' = MergeHeaders(meta, task[i].result.url, task[i].result.headers)
    /\ collected' = collected \cup {i}
    /\ fetched' = [u \in DOMAIN fetched \cup {task[i].url} |->
                      IF u = task[i].url THEN task[i].reply ELSE fetched[u]]
    /\ UNCHANGED <<cfg, calls, rotator, writes, disk, run, pc, exit_code, feeds, seen, new_seen,
                   task, done, not_done, cancel_iter, publish, acked_before,
                   log>>

\* a skip line only for the futures that fut.cancel() could cancel
SkipLoggedIfCancelled(l, t, i) ==
    IF t[i].st = "pending"
    THEN Logged(l, LogEv("fetch budget reached; skipped", t[i].url, 0))
    ELSE l

\* lines 580-585: the skip line is written whatever fut.cancel() returned
SkipLogged(l, t, i) ==
    Logged(l, LogEv("fetch budget reached; skipped", t[i].url, 0))

\* lines 577-585: one iteration of "for fut in not_done": fut.cancel()
\* takes a future that has not started out of the queue; a skip is logged
CancelOne(i) ==
    /\ pc = "collect"
    /\ collected = done
    /\ i \in not_done \ cancel_iter
    /\ task' = IF task[i].st = "pending"
               THEN [task EXCEPT ![i].st = "cancelled"]
               ELSE task
    /\ cancel_iter' = cancel_iter \cup {i}
    /\ log' = SkipLogged(log, task, i)
    /\ UNCHANGED <<cfg, calls, rotator, writes, disk, run, pc, exit_code, feeds, meta, seen, new_seen,
                   all_items, done, not_done, collected, publish,
                   fetched, acked_before>>

\* the end of the with block: shutdown(wait=True) returns once no worker
\* thread is running a task
PoolClosed ==
    /\ pc = "collect"
    /\ collected = done
    /\ cancel_iter = not_done
    /\ Running(task) = {}

\* the executor and its futures are not used after the with block
PoolGone ==
    /\ task' = <<>>
    /\ done' = {}
    /\ not_done' = {}
    /\ collected' = {}
    /\ cancel_iter' = {}

\* lines 587-589: nothing was parsed, return 0
NoItemsExit ==
    /\ PoolClosed
    /\ all_items = <<>>
    /\ log' = Logged(log, LogEv("no items parsed from feeds", "", 0))
    /\ exit_code' = 0
    /\ pc' = "exited"
    /\ PoolGone
    /\ UNCHANGED <<cfg, calls, rotator, writes, disk, run, feeds, meta, seen, new_seen, all_items,
                   publish, fetched, acked_before>>

\* lines 591-598: sort newest first and enter the publish loop
SortItems ==
    /\ PoolClosed
    /\ all_items # <<>>
    /\ all_items' = SortNewestFirst(all_items)
    /\ idx' = 1
    /\ posted' = 0
    /\ pc' = "publish"
    /\ PoolGone
    /\ UNCHANGED <<cfg, calls, rotator, writes, disk, run, exit_code, feeds, meta, seen, new_seen,
                   posts, fetched, acked_before, log>>

(***************************************************************************)
(* main: the publish loop and persistence (lines 598-628)                  *)
(***************************************************************************)
\* a quota test that lets one more item through
LoopOverLate(items, i, n, c) == i > Len(items) \/ n > MaxPerRunOf(c)

\* lines 599-601: the loop ends at the end of the list or at the quota
LoopOver(items, i, n, c) == i > Len(items) \/ n >= MaxPerRunOf(c)

\* a filter that only knows this run's additions
FilteredByDelta(key, loaded, delta) == key \in delta \ loaded

\* line 603: the dedup filter looks the key up in the store as loaded
Filtered(key, loaded, delta) == key \in loaded

\* lines 602-604: an item whose key is in the store is passed over
SkipSeen ==
    /\ pc = "publish"
    /\ ~LoopOver(all_items, idx, posted, cfg)
    /\ Filtered(compute_seen_key(all_items[idx]), seen, new_seen)
    /\ idx' = idx + 1
    /\ UNCHANGED <<cfg, calls, rotator, writes, disk, run, pc, exit_code, feeds, meta, seen, new_seen,
                   all_items, pool, posted, posts, fetched, acked_before, log>>

\* marking the key whatever post_with_retry returned
MarkedAlways(delta, key, ok) == delta \cup {key}

\* lines 609-617: what one post_with_retry result does to new_seen
Marked(delta, key, ok) == IF ok THEN delta \cup {key} ELSE delta

\* lines 605-617: the item is handed to post_with_retry; the sink's answers
\* to a first and to a second POST are first and second.  An exception out
\* of http_post_json is caught nowhere: it ends the process.
PostItem(first, second) ==
    /\ pc = "publish"
    /\ ~LoopOver(all_items, idx, posted, cfg)
    /\ ~Filtered(compute_seen_key(all_items[idx]), seen, new_seen)
    /\ LET key == compute_seen_key(all_items[idx])
           r == post_with_retry(first, second)
       IN /\ posts' = Append(posts, [idx |-> idx, key |-> key, ok |-> r.ok,
                                     raised |-> r.raised])
          /\ IF r.raised
             THEN /\ pc' = "exited"
                  /\ exit_code' = 1
                  /\ UNCHANGED <<new_seen, posted, idx, log>>
             ELSE /\ new_seen' = Marked(new_seen, key, r.ok)
                  /\ posted' = IF r.ok THEN posted + 1 ELSE posted
                  /\ idx' = idx + 1
                  /\ log' = IF r.logged
                            THEN Logged(log, LogEv("webhook post failed", "", key))
                            ELSE log
                  /\ UNCHANGED <<pc, exit_code>>
    /\ UNCHANGED <<cfg, calls, rotator, writes, disk, run, feeds, meta, seen, all_items, pool,
                   fetched, acked_before>>

\* lines 619-620: the store is rewritten only after a successful post
StoreAfterRun(old, loaded, delta, n, outcome) ==
    IF n > 0 /\ delta # loaded THEN save_seen(old, delta, outcome) ELSE old

\* lines 619-624: the save_* calls a run makes when it gets to line 619
SavesAfterRun(loaded, delta, n) ==
    (IF n > 0 /\ delta # loaded THEN {"seen"} ELSE {}) \cup {"meta"}

\* lines 619-628: save the store if it grew, save the metadata, return 0
Persist(seen_outcome, meta_outcome) ==
    /\ pc = "publish"
    /\ LoopOver(all_items, idx, posted, cfg)
    /\ disk_seen' = StoreAfterRun(disk_seen, seen, new_seen, posted, seen_outcome)
    /\ disk_meta' = save_meta(disk_meta, meta, meta_outcome)
    /\ write_failed' =
          \/ write_failed
          \/ StoreAfterRun(disk_seen, seen, new_seen, posted, seen_outcome)
                # StoreAfterRun(disk_seen, seen, new_seen, posted, "written")
    /\ log' = Logged(log, LogEv("run complete", "", 0))
    /\ exit_code' = 0
    /\ pc' = "exited"
    /\ writes' = SavesAfterRun(seen, new_seen, posted)
    /\ UNCHANGED <<cfg, calls, rotator, run, feeds, meta, seen, new_seen, all_items, pool,
                   publish, fetched, acked_before>>

(***************************************************************************)
(* The relay                                                               *)
(***************************************************************************)
Next ==
    \/ RunNoWebhook
    \/ RunNoFeeds
    \/ RunSetup
    \/ Submit
    \/ \E i \in DOMAIN task : StartTask(i)
    \/ \E i \in DOMAIN task : FinishTask(i)
    \/ WaitReturn
    \/ \E i \in DOMAIN task : Collect(i)
    \/ \E i \in DOMAIN task : CancelOne(i)
    \/ NoItemsExit
    \/ SortItems
    \/ SkipSeen
    \/ \E first \in FirstAnswers, second \in SecondAnswers : PostItem(first, second)
    \/ \E so \in DiskOutcomes, mo \in DiskOutcomes : Persist(so, mo)

Spec == Init /\ [][Next]_vars

(***************************************************************************)
(* post_with_retry called on its own, for every pair of answers of the     *)
(* sink                                                                    *)
(***************************************************************************)
relay == <<cfg, disk, run, pc, exit_code, feeds, meta, seen, new_seen,
           all_items, pool, publish, fetched, acked_before, log, writes>>

\* the Retry-After values of the sink run from -2 to MaxRetryAfter seconds
MaxRetryAfter == 12

RetryAfters == {RaAbsent, RaBad} \cup {RaNum(n) : n \in -2..MaxRetryAfter}

SinkFirst ==
    {Answer(c, RaAbsent) : c \in {200, 204, 400, 500, 0}}
        \cup {Answer(429, ra) : ra \in RetryAfters}
SinkSecond == {Answer(c, RaAbsent) : c \in {200, 204, 429, 500, 0}}

InitPublisher ==
    /\ RelayInit
    /\ args \in {[fn |-> "post_with_retry", first |-> a, second |-> b] :
                    a \in SinkFirst, b \in SinkSecond}
    /\ ret = NoRet
    /\ RotatorIdle

CallPostWithRetry ==
    /\ args.fn = "post_with_retry"
    /\ ~ret.returned
    /\ ret' = [returned |-> TRUE,
               value |-> post_with_retry(args.first, args.second)]
    /\ UNCHANGED <<args, relay, rotator>>

NextPublisher == CallPostWithRetry

SpecPublisher == InitPublisher /\ [][NextPublisher]_vars

(***************************************************************************)
(* The feed list of main, built on its own from every short configuration  *)
(***************************************************************************)
\* the longest FEEDS value; FEEDS_FILE and FEEDS_DIR hold at most one line
MaxFeedsLen == 2

RawEntries == {"r/a", "r/a/", RedditA, FeedB, ArenaCh, ArenaChRss}

RECURSIVE ListsUpTo(_, _)
ListsUpTo(S, n) ==
    IF n = 0 THEN {<<>>}
    ELSE ListsUpTo(S, n - 1)
            \cup {Append(l, e) : l \in {m \in ListsUpTo(S, n - 1) : Len(m) = n - 1},
                                 e \in S}

InitFeeds ==
    /\ RelayInit
    /\ args \in {[fn |-> "feeds", FEEDS |-> a, FEEDS_FILE |-> b, FEEDS_DIR |-> c] :
                    a \in ListsUpTo(RawEntries, MaxFeedsLen),
                    b \in ListsUpTo(RawEntries, 1),
                    c \in ListsUpTo(RawEntries, 1)}
    /\ ret = NoRet
    /\ RotatorIdle

\* lines 460-477
BuildFeeds ==
    /\ args.fn = "feeds"
    /\ ~ret.returned
    /\ ret' = [returned |-> TRUE, value |-> NormalizeFeeds(RawFeeds(args))]
    /\ UNCHANGED <<args, relay, rotator>>

NextFeeds == BuildFeeds

SpecFeeds == InitFeeds /\ [][NextFeeds]_vars

(***************************************************************************)
(* The rotator: pimo_rotator.py, main                                      *)
(***************************************************************************)
\* the clock is followed for MaxElapsed seconds after Boot
MaxElapsed == 60

DefaultPeriodMin == 120
DefaultMinSlice == 300

\* parse_int, lines 151-157
parse_int(value, default) == IF value.kind = "int" THEN value.v ELSE default

\* int(a / b) for b > 0: int() drops the fraction, toward zero
TruncDiv(a, b) == IF a >= 0 THEN a \div b ELSE -((-a) \div b)

\* lines 195-199: slice_s = max(min_slice_s, int(period_min * 60 / n))
SliceSeconds(c, n) ==
    LET period_min == parse_int(c.ROTATION_PERIOD_MINUTES, DefaultPeriodMin)
        min_slice_s == parse_int(c.MIN_SLICE_SECONDS, DefaultMinSlice)
        even == TruncDiv(period_min * 60, n)
    IN  IF min_slice_s > even THEN min_slice_s ELSE even

\* a reset test that does not look at the slice length
NeedsResetCountOnly(state, n, slice_s) ==
    state.epoch_ts <= 0 \/ state.services_count # n

\* line 204
NeedsReset(state, n, slice_s) ==
    \/ state.epoch_ts <= 0
    \/ state.services_count # n
    \/ state.slice_seconds # slice_s

\* lines 212-215
SliceIndex(now, epoch, slice_s, n) ==
    IF slice_s <= 0 THEN 0 ELSE ((now - epoch) \div slice_s) % n

\* a pass that starts the desired unit and stops nothing
StartOnly(desired, all_services, rcs) ==
    [i \in DOMAIN all_services |->
        [op |-> "start", svc |-> desired, rc |-> rcs[i]]]

\* ensure_only_running, lines 172-182: the systemctl calls in order, rcs[i]
\* being the exit status of the i-th
ensure_only_running(desired, all_services, rcs) ==
    [i \in DOMAIN all_services |->
        [op |-> IF all_services[i] = desired THEN "start" ELSE "stop",
         svc |-> all_services[i], rc |-> rcs[i]]]

\* systemd after the calls cs[i..]: a call that exits 0 has started or
\* stopped its unit, a call that fails leaves the unit as it was
RECURSIVE Systemd(_, _, _)
Systemd(units, cs, i) ==
    IF i > Len(cs) THEN units
    ELSE Systemd(IF cs[i].rc # 0 THEN units
                 ELSE IF cs[i].op = "start" THEN units \cup {cs[i].svc}
                 ELSE units \ {cs[i].svc},
                 cs, i + 1)

\* save_state, lines 136-148, followed by the next load_state
save_state(old, new, outcome) ==
    IF outcome = "written" THEN new
    ELSE IF outcome = "unchanged" THEN old
    ELSE NoState

ServiceLists ==
    { <<>>, <<"a", "b">>, <<"a", "b", "c">>, <<"b", "a">> }

\* systemctl works (every call exits 0) or does not (every call exits 1)
ExitStatuses(all_services) ==
    {[i \in DOMAIN all_services |-> rc] : rc \in {0, 1}}

RotConfigs ==
    { [ROTATION_PERIOD_MINUTES |-> IntVal(1), MIN_SLICE_SECONDS |-> IntVal(10)],
      [ROTATION_PERIOD_MINUTES |-> IntVal(0), MIN_SLICE_SECONDS |-> IntVal(0)],
      [ROTATION_PERIOD_MINUTES |-> Unset, MIN_SLICE_SECONDS |-> BadInt] }

InitRotator ==
    /\ RelayInit
    /\ cfg.WEBHOOK_URL = ""
    /\ disk_meta = EmptyMeta
    /\ args = NoArgs
    /\ ret = NoRet
    /\ services_file \in ServiceLists
    /\ rot_cfg \in RotConfigs
    /\ rot_state \in {NoState, RotState(Boot - 40, 2, 30)}
    /\ clock = Boot
    /\ active \in {{"x"}, {"a", "b", "c"}}
    /\ cmds = <<>>
    /\ last = NoRun

\* the process of the last run is gone
Forgotten == cmds' = <<>> /\ last' = NoRun

\* time passes between two runs of cron
Tick(d) ==
    /\ clock + d <= Boot + MaxElapsed
    /\ clock' = clock + d
    /\ Forgotten
    /\ UNCHANGED <<relay, calls, services_file, rot_cfg, rot_state, active>>

\* the services file is edited
EditServices(s) ==
    /\ s # services_file
    /\ services_file' = s
    /\ Forgotten
    /\ UNCHANGED <<relay, calls, rot_cfg, rot_state, clock, active>>

\* the configuration file is edited
EditConfig(c) ==
    /\ c # rot_cfg
    /\ rot_cfg' = c
    /\ Forgotten
    /\ UNCHANGED <<relay, calls, services_file, rot_state, clock, active>>

\* lines 190-193: no services, return 0
RotatorRunEmpty ==
    /\ services_file = <<>>
    /\ cmds' = <<>>
    /\ last' = EmptyRun
    /\ UNCHANGED <<relay, calls, services_file, rot_cfg, rot_state, clock, active>>

\* lines 195-220: one run of main.  The clock is read at line 205 when the
\* epoch is reset and again at line 211, d seconds later.
RotatorRun(rcs, d, outcome) ==
    /\ services_file # <<>>
    /\ clock + d <= Boot + MaxElapsed
    /\ LET services == services_file
           n == Len(services)
           slice_s == SliceSeconds(rot_cfg, n)
           reset == NeedsReset(rot_state, n, slice_s)
           epoch == IF reset THEN clock ELSE rot_state.epoch_ts
           now == IF reset THEN clock + d ELSE clock
           i == SliceIndex(now, epoch, slice_s, n)
           cs == ensure_only_running(services[i + 1], services, rcs)
       IN  /\ rcs \in ExitStatuses(services)
           /\ reset \/ (d = 0 /\ outcome = "written")
           /\ rot_state' = IF reset
                           THEN save_state(rot_state, RotState(epoch, n, slice_s), outcome)
                           ELSE rot_state
           /\ clock' = now
           /\ cmds' = cs
           /\ active' = Systemd(active, cs, 1)
           /\ last' = RunOf(n, slice_s, rot_state, epoch, now, i, reset)
    /\ UNCHANGED <<relay, calls, services_file, rot_cfg>>

NextRotator ==
    \/ \E d \in {10, 30} : Tick(d)
    \/ \E s \in ServiceLists : EditServices(s)
    \/ \E c \in RotConfigs : EditConfig(c)
    \/ RotatorRunEmpty
    \/ \E rcs \in UNION {ExitStatuses(s) : s \in ServiceLists},
          d \in {0, 10}, outcome \in DiskOutcomes : RotatorRun(rcs, d, outcome)

SpecRotator == InitRotator /\ [][NextRotator]_vars

(***************************************************************************)
(* The merge of one result's headers (main, lines 563-570), on its own,    *)
(* from the header dict as http_get_conditional returns it                 *)
(***************************************************************************)
\* dict(resp.headers) keeps each header name as the server spelled it.
\* These are the spellings servers use for the two validators.
EtagNames == {"ETag", "etag", "Etag"}
LmNames == {"Last-Modified", "last-modified", "Last-modified"}

NoHeader == [n \in {} |-> ""]
OneHeader(name, value) == [n \in {name} |-> value]
JoinDicts(f, g) ==
    [n \in DOMAIN f \cup DOMAIN g |-> IF n \in DOMAIN f THEN f[n] ELSE g[n]]

\* the header dicts of a response: each validator absent, or present under
\* one spelling with a value or with an empty value; a Date header or none
RawHeaders ==
    { JoinDicts(JoinDicts(e, l), o) :
        e \in {NoHeader} \cup {OneHeader(n, v) : n \in EtagNames, v \in {"e2", ""}},
        l \in {NoHeader} \cup {OneHeader(n, v) : n \in LmNames, v \in {"m2", ""}},
        o \in {NoHeader, OneHeader("Date", "d")} }

\* d.get(k)
dict_get(d, k) == IF k \in DOMAIN d THEN d[k] ELSE None

\* Python truth of an optional string, and "a or b"
Truthy(v) == v # None /\ v # ""
PyOr(a, b) == IF Truthy(a) THEN a ELSE b

\* lines 563-566: "if headers", then the two lookups, each under two
\* spellings of the name; a value that is not truthy counts as absent in
\* the test of line 566 and in the "or" of lines 568-569
ReadValidators(raw) ==
    IF DOMAIN raw = {} THEN EmptyDict
    ELSE LET new_etag == PyOr(dict_get(raw, "ETag"), dict_get(raw, "etag"))
             new_lm == PyOr(dict_get(raw, "Last-Modified"),
                            dict_get(raw, "last-modified"))
         IN  Hdr(IF Truthy(new_etag) THEN new_etag ELSE None,
                 IF Truthy(new_lm) THEN new_lm ELSE None)

\* the cache before the merge: no entry for the feed, or an entry with
\* either validator cached or null
CachedMetas ==
    {EmptyMeta} \cup
    { [u \in {FeedB} |-> MetaEntry(e, l)] : e \in {None, "e1"}, l \in {None, "m1"} }

InitMerge ==
    /\ RelayInit
    /\ args \in {[fn |-> "merge", meta |-> m, url |-> FeedB, headers |-> h] :
                    m \in CachedMetas, h \in RawHeaders}
    /\ ret = NoRet
    /\ RotatorIdle

\* lines 563-570 for one result (url, items, headers)
MergeResult ==
    /\ args.fn = "merge"
    /\ ~ret.returned
    /\ ret' = [returned |-> TRUE,
               value |-> MergeHeaders(args.meta, args.url,
                                      ReadValidators(args.headers))]
    /\ UNCHANGED <<args, relay, rotator>>

NextMerge == MergeResult

SpecMerge == InitMerge /\ [][NextMerge]_vars

(***************************************************************************)
(* Properties                                                              *)
(***************************************************************************)
InRun == pc \notin {"idle", "exited"}

\* the run got to "run complete" (line 627), past persistence
RunComplete == pc = "exited" /\ BagIn(LogEv("run complete", "", 0), log)

PostedOk == {i \in DOMAIN posts : posts[i].ok}
KeysPostedOk == {posts[i].key : i \in PostedOk}

\* C1: no item whose SeenKey is in the dedup store as loaded at the start
\* of the run (seen, equal to the store file for the whole run) is ever
\* handed to the webhook.
C1_SeenNeverPosted ==
    /\ \A i \in DOMAIN posts : posts[i].key \notin seen
    /\ InRun => seen = disk_seen

C1_Witness ==
    /\ pc = "publish"
    /\ posts # <<>>
    /\ \E j \in DOMAIN all_items :
          j < idx /\ compute_seen_key(all_items[j]) \in seen

\* C2: through the publish loop and at the end of a run that reached
\* persistence, new_seen is the loaded store plus exactly the keys of the
\* posts that returned success.
C2_DeltaIsAcked ==
    (pc = "publish" \/ RunComplete) => new_seen = seen \cup KeysPostedOk

C2_Witness ==
    /\ RunComplete
    /\ \E i, j \in DOMAIN posts :
          /\ posts[i].ok
          /\ ~posts[j].ok
          /\ posts[j].key \notin new_seen

\* C3: as long as no write of the store file has failed, a key acknowledged
\* with 200/204 in an earlier run is never posted again, and when a run has
\* ended every key it got acknowledged is in the store file.
C3_NeverReposted ==
    ~write_failed =>
        /\ \A i \in DOMAIN posts : posts[i].key \notin acked_before
        /\ pc = "exited" => KeysPostedOk \subseteq disk_seen

\* C4: every failed post is isolated to its item: the key is not marked
\* seen by it, the failure is logged, and the run goes on to the next item
\* and to persistence.
C4_PostFailureIsolated ==
    \A i \in DOMAIN posts :
        ~posts[i].ok =>
            /\ posts[i].key \in new_seen =>
                  posts[i].key \in seen \cup KeysPostedOk
            /\ BagIn(LogEv("webhook post failed", "", posts[i].key), log)
            /\ (pc = "publish" /\ idx > posts[i].idx) \/ RunComplete

UnseenIdx == {j \in DOMAIN all_items : compute_seen_key(all_items[j]) \notin seen}
FirstOf(S, k) == {j \in S : Cardinality({m \in S : m < j}) < k}
Least(a, b) == IF a < b THEN a ELSE b

\* C5: a run makes at most Q = max_per_run successful posts, and when the
\* loop has ended with every post successful the posted items are exactly
\* the first min(Q, n) of the n unseen items of the sorted sequence.
C5_Quota ==
    /\ Cardinality(PostedOk) <= MaxPerRunOf(cfg)
    /\ pc \in {"publish", "exited"} => posted = Cardinality(PostedOk)
    /\ (RunComplete /\ \A i \in DOMAIN posts : posts[i].ok) =>
          {posts[i].idx : i \in DOMAIN posts} =
              FirstOf(UnseenIdx, Least(MaxPerRunOf(cfg), Cardinality(UnseenIdx)))

C5_Witness ==
    /\ RunComplete
    /\ \A i \in DOMAIN posts : posts[i].ok
    /\ Len(posts) = MaxPerRunOf(cfg)
    /\ Cardinality({j \in DOMAIN all_items :
                      compute_seen_key(all_items[j]) \notin seen}) > Len(posts)

\* the pair the items are ordered by: (published_ts or 0, SeenKey)
OrderPair(it) ==
    <<IF it.published_ts = NoTs THEN 0 ELSE it.published_ts[1],
      compute_seen_key(it)>>
NotBelow(a, b) == a[1] > b[1] \/ (a[1] = b[1] /\ a[2] >= b[2])

Held(m, url) == IF url \in DOMAIN m THEN <<m[url]>> ELSE <<>>

ItemsFrom(url) == {j \in DOMAIN all_items : all_items[j].feed_url = url}

\* the fetch phase from the first collected result on, and the publish
\* loop: the store and cache files are the ones loaded at the run's start
AfterFetch == pc \in {"collect", "publish"}

FetchFailed(r) ==
    \/ r.status = 0
    \/ r.status \notin {200, 304}
    \/ r.status = 200 /\ ~r.body.wf

\* C8: a feed whose fetch failed contributes no item, its metadata entry is
\* the loaded one, and the run goes on.
C8_FailedFetchIsolated ==
    AfterFetch =>
        \A u \in DOMAIN fetched :
            FetchFailed(fetched[u]) =>
                /\ ItemsFrom(u) = {}
                /\ Held(meta, u) = Held(disk_meta, u)

\* how often x occurs among the items of url in the merged list, and in
\* the list parsed from url's own reply
CountMerged(url, x) == Cardinality({j \in ItemsFrom(url) : all_items[j] = x})
CountParsed(r, url, x) ==
    IF r.status = 200 /\ r.body.wf
    THEN Cardinality({j \in DOMAIN r.body.entries :
            /\ x.feed_url = url
            /\ x.unique_id = (IF r.body.entries[j].guid # "" THEN r.body.entries[j].guid
                              ELSE IF r.body.entries[j].link # "" THEN r.body.entries[j].link
                              ELSE r.body.entries[j].title)
            /\ x.title = r.body.entries[j].title
            /\ x.link = r.body.entries[j].link
            /\ x.published_ts = r.body.entries[j].ts})
    ELSE 0
ParsedSize(r) == IF r.status = 200 /\ r.body.wf THEN Len(r.body.entries) ELSE 0

\* C9: for every feed whose result was collected, the items it has in the
\* merged list are those of its own reply and its metadata entry is the
\* loaded entry merged with its own reply's validators: neither depends on
\* what any other feed did.
C9_FeedsIndependent ==
    AfterFetch =>
        \A u \in DOMAIN fetched :
            LET r == fetched[u]
                h == IF r.status \in {200, 304} THEN r.headers
                     ELSE [etag |-> None, lm |-> None, other |-> FALSE]
                old == IF u \in DOMAIN disk_meta THEN disk_meta[u]
                       ELSE [etag |-> None, last_modified |-> None]
            IN  /\ Cardinality(ItemsFrom(u)) = ParsedSize(r)
                /\ \A j \in ItemsFrom(u) :
                      CountMerged(u, all_items[j]) = CountParsed(r, u, all_items[j])
                /\ IF h.etag = None /\ h.lm = None
                   THEN Held(meta, u) = Held(disk_meta, u)
                   ELSE /\ u \in DOMAIN meta
                        /\ meta[u].etag =
                             (IF h.etag # None THEN h.etag ELSE old.etag)
                        /\ meta[u].last_modified =
                             (IF h.lm # None THEN h.lm ELSE old.last_modified)

C9_Witness ==
    /\ pc = "publish"
    /\ \E u \in DOMAIN fetched, w \in {feeds[k] : k \in DOMAIN feeds} :
          /\ fetched[u].status = 200
          /\ ItemsFrom(u) # {}
          /\ Held(meta, u) # Held(disk_meta, u)
          /\ w \notin DOMAIN fetched

\* the concurrency ceiling: MAX_CONCURRENCY clamped to 1..32, 8 by default
Ceiling ==
    IF cfg.MAX_CONCURRENCY.kind # "int" THEN 8
    ELSE IF cfg.MAX_CONCURRENCY.v < 1 THEN 1
    ELSE IF cfg.MAX_CONCURRENCY.v > 32 THEN 32
    ELSE cfg.MAX_CONCURRENCY.v

NormalizedUrls ==
    {normalize_feed_entry(cfg.FEEDS[k]) : k \in DOMAIN cfg.FEEDS}
        \cup {normalize_feed_entry(cfg.FEEDS_FILE[k]) : k \in DOMAIN cfg.FEEDS_FILE}
        \cup ({normalize_feed_entry(cfg.FEEDS_DIR[k]) : k \in DOMAIN cfg.FEEDS_DIR}
                \ {""})

\* C10: while the pool exists there is exactly one task per normalized URL
\* of the configuration, and never more than Ceiling tasks are running.
C10_OneTaskPerUrlBoundedPool ==
    /\ pc \in {"wait", "collect"} =>
          /\ Len(task) = Cardinality(NormalizedUrls)
          /\ {task[i].url : i \in DOMAIN task} = NormalizedUrls
    /\ Cardinality({i \in DOMAIN task : task[i].st = "running"}) <= Ceiling

C10_Witness ==
    /\ Ceiling = 1
    /\ Len(cfg.FEEDS) + Len(cfg.FEEDS_FILE) + Len(cfg.FEEDS_DIR) > Len(task)
    /\ \E i, j \in DOMAIN task :
          task[i].st = "running" /\ task[j].st = "pending"

\* the feeds of this run of which no result was taken
NotTaken == {feeds[k] : k \in DOMAIN feeds} \ DOMAIN fetched

\* C11: a task that was not finished when the timed wait returned never has
\* its result incorporated, even if it finishes afterwards: the task is not
\* collected, no item of its feed is merged, and the feed's metadata entry
\* stays the loaded one, up to the end of the publish loop.
C11_LateResultsDropped ==
    /\ pc = "collect" =>
          \A i \in not_done :
              /\ i \notin collected
              /\ task[i].url \in NotTaken
    /\ AfterFetch =>
          \A u \in NotTaken :
              /\ ItemsFrom(u) = {}
              /\ Held(meta, u) = Held(disk_meta, u)

\* a task finished after the deadline with items and validators, and both
\* loops of the fetch phase are over
C11_Witness ==
    /\ pc = "collect"
    /\ collected = done
    /\ cancel_iter = not_done
    /\ \E i \in not_done :
          /\ task[i].st = "finished"
          /\ task[i].result.items # <<>>
          /\ task[i].result.headers.etag # None
          /\ task[i].result.headers.etag # MetaGet(meta, task[i].url).etag

\* both loops of the fetch phase are over, or the run is past them
FetchOver ==
    \/ pc \in {"publish", "exited"}
    \/ pc = "collect" /\ collected = done /\ cancel_iter = not_done

\* number of skip lines in the log that name url
Skips(url) == CopiesIn(LogEv("fetch budget reached; skipped", url, 0), log)

\* C12: once the fetch phase is over every submitted URL is accounted for
\* exactly once: either its result was taken and no skip line names it, or
\* its result was not taken and exactly one skip line names it.  During the
\* phase a skip line is written for each task of not_done as the second loop
\* passes it, and for no task of done.
C12_EveryUrlAccountedOnce ==
    /\ FetchOver =>
          \A k \in DOMAIN feeds :
              \/ feeds[k] \in DOMAIN fetched /\ Skips(feeds[k]) = 0
              \/ feeds[k] \notin DOMAIN fetched /\ Skips(feeds[k]) = 1
    /\ pc = "collect" =>
          \A i \in DOMAIN task :
              /\ i \in done => Skips(task[i].url) = 0
              /\ i \in not_done =>
                    Skips(task[i].url) = (IF i \in cancel_iter THEN 1 ELSE 0)

\* the fetch phase is over with one result taken and one task that was
\* already running at the deadline, which fut.cancel() cannot cancel
C12_Witness ==
    /\ pc = "collect"
    /\ collected = done
    /\ cancel_iter = not_done
    /\ done # {}
    /\ \E i \in not_done : task[i].st \in {"running", "finished"}
                           /\ Skips(task[i].url) = 1

\* C13: once the timed wait has returned and both loops over its result are
\* over, the coordinator goes on to the merge (the empty-list return or the
\* sort) without waiting for a fetch task that is still running: its next
\* step is enabled whatever the tasks are doing.
C13_NoWaitForRunningTasks ==
    (pc = "collect" /\ collected = done /\ cancel_iter = not_done)
        => ENABLED (NoItemsExit \/ SortItems)

\* post_with_retry has been called on its own and is over
PublisherReturned == args.fn = "post_with_retry" /\ ret.returned

\* C14: post_with_retry issues one POST or two, never a third; the second
\* is issued exactly when the first was answered 429; any other answer to
\* the first POST ends the call; and the call reports success exactly when
\* the last POST it issued was answered 200 or 204.
C14_AtMostOneRetry ==
    PublisherReturned =>
        LET r == ret.value
            n == Len(r.codes)
        IN  /\ n \in {1, 2}
            /\ r.codes[1] = args.first.code
            /\ n = 2 <=> args.first.code = 429
            /\ n = 2 => r.codes[2] = args.second.code
            /\ r.ok <=> r.codes[n] \in {200, 204}
            /\ r.ok => ~r.raised /\ ~r.logged
            /\ (~r.ok /\ ~r.raised) => r.logged

\* a first POST answered 429 and a retry answered 204
C14_Witness ==
    /\ PublisherReturned
    /\ ret.value.codes = <<429, 204>>
    /\ ret.value.ok

\* the wait C15 states: the Retry-After value kept within 0..10, and one
\* second when the header is absent or is not a number
StatedDelay(retry_after) ==
    IF retry_after.kind \in {"absent", "bad"} THEN 1
    ELSE IF retry_after.v < 0 THEN 0
    ELSE IF retry_after.v > 10 THEN 10
    ELSE retry_after.v

\* C15: on a 429 the call sleeps once, for the Retry-After value clamped to
\* 0..10 seconds, and for one second when the header is absent or
\* unparsable.
C15_RetryDelay ==
    (PublisherReturned /\ args.first.code = 429) =>
        ret.value.slept = <<StatedDelay(args.first.retry_after)>>

\* the run passed the configuration checks of lines 455-480 and has ended
ValidRunEnded == pc = "exited" /\ exit_code # 2

\* C16: every run that passes the configuration checks has called save_meta
\* on the metadata cache by the time it ends, whether or not anything was
\* posted and whether or not any feed yielded an item.
C16_MetaSavedEveryRun ==
    ValidRunEnded => "meta" \in writes

\* C17: when a run that passed the configuration checks ends, save_seen has
\* been called on the dedup store exactly if the run added a key to the
\* loaded set; a run without a successful post has not called it and the
\* store file is as loaded.
C17_StoreRewrittenIffGrown ==
    ValidRunEnded =>
        /\ "seen" \in writes <=> new_seen # seen
        /\ PostedOk = {} => ("seen" \notin writes /\ disk_seen = seen)

\* the webhook endpoint is empty or no feed source resolves to a URL
ConfigError == cfg.WEBHOOK_URL = "" \/ NormalizedUrls = {}

\* C18: with an empty webhook endpoint or an empty resolved feed list every
\* run ends with exit code 2 without having submitted a fetch, issued a POST
\* or called a save; exit code 2 is given for no other reason; and the step
\* that ends a run with exit code 2 leaves the contents of the dedup store
\* and of the metadata cache as they were.
C18_ConfigErrorAborts ==
    /\ []((ConfigError /\ run > 0) =>
            /\ pc = "exited" /\ exit_code = 2
            /\ task = <<>> /\ fetched = <<>>
            /\ posts = <<>>
            /\ writes = {})
    /\ [](exit_code = 2 => ConfigError)
    /\ [][exit_code' = 2 => (disk_seen' = disk_seen /\ disk_meta' = disk_meta)]_vars

\* a second run has ended with exit code 2 although feeds are configured,
\* and the metadata cache still holds its entries
C18_Witness ==
    /\ pc = "exited"
    /\ exit_code = 2
    /\ run = 2
    /\ RawFeeds(cfg) # <<>>
    /\ disk_meta # EmptyMeta

\* C19: a run ends with a non-success outcome only for a configuration
\* error: with a valid configuration every run that has ended has exit
\* code 0, whatever feeds, posts and file writes did.
C19_OnlyConfigErrorFails ==
    pc = "exited" => exit_code = (IF ConfigError THEN 2 ELSE 0)

\* the feed list has been built on its own
FeedsBuilt == args.fn = "feeds" /\ ret.returned

\* the raw input in reading order and the normal form of its k-th entry
RawInput == args.FEEDS \o args.FEEDS_FILE \o args.FEEDS_DIR
NormalAt(k) == normalize_feed_entry(RawInput[k])

\* the position in the raw input where the normal form u comes first
FirstAt(u) ==
    CHOOSE k \in DOMAIN RawInput :
        /\ NormalAt(k) = u
        /\ \A j \in DOMAIN RawInput : NormalAt(j) = u => k <= j

\* C20: the feed list holds no value twice, holds exactly the non-empty
\* normal forms of the raw entries, and lists them in the order in which
\* they first occur in FEEDS, then FEEDS_FILE, then FEEDS_DIR.
C20_FeedListDistinctInOrder ==
    FeedsBuilt =>
        LET out == ret.value
        IN  /\ \A i, j \in DOMAIN out : i # j => out[i] # out[j]
            /\ {out[i] : i \in DOMAIN out}
                  = {NormalAt(k) : k \in DOMAIN RawInput} \ {""}
            /\ \A i, j \in DOMAIN out :
                  i < j => FirstAt(out[i]) < FirstAt(out[j])

\* a short form in FEEDS, its expanded URL again in FEEDS_DIR, and another
\* feed between them: three raw entries, two feeds
C20_Witness ==
    /\ FeedsBuilt
    /\ args.FEEDS = <<"r/a", "r/a/">>
    /\ args.FEEDS_FILE = <<ArenaCh>>
    /\ args.FEEDS_DIR = <<RedditA>>
    /\ ret.value = <<RedditA, ArenaChRss>>

\* a rotator run with a non-empty service list has just ended
Rotated == last.ran /\ last.n > 0

Listed == {services_file[j] : j \in DOMAIN services_file}

C22_AtMostQAttempts ==
    Len(posts) <= MaxPerRunOf(cfg)

\* C23 as stated: in the sorted list every item without a timestamp comes
\* after every item with one, whatever the timestamp is.
C23_UndatedSortLast ==
    pc = "publish" =>
        \A a, b \in DOMAIN all_items :
            (all_items[a].published_ts = NoTs /\ all_items[b].published_ts # NoTs)
                => b < a

\* what the first k feeds of the list give when the results taken are
\* merged in list order
RECURSIVE ItemsInListOrder(_)
ItemsInListOrder(k) ==
    IF k = 0 THEN <<>>
    ELSE ItemsInListOrder(k - 1)
            \o (IF feeds[k] \in DOMAIN fetched
                THEN worker(feeds[k], fetched[feeds[k]]).items
                ELSE <<>>)

RECURSIVE MetaInListOrder(_)
MetaInListOrder(k) ==
    IF k = 0 THEN disk_meta
    ELSE IF feeds[k] \in DOMAIN fetched
    THEN MergeHeaders(MetaInListOrder(k - 1), feeds[k],
                      worker(feeds[k], fetched[feeds[k]]).headers)
    ELSE MetaInListOrder(k - 1)

Undated(j) == all_items[j].published_ts = NoTs
DatedAt(j) == all_items[j].published_ts[1]

\* C23, amended: an item without a timestamp sorts as an item of timestamp
\* zero does: in the sorted list it comes after every item with a positive
\* timestamp and before every item with a negative one.
C23_UndatedSortAsZero ==
    pc = "publish" =>
        \A a, b \in DOMAIN all_items :
            (Undated(a) /\ ~Undated(b)) =>
                /\ DatedAt(b) > 0 => b < a
                /\ DatedAt(b) < 0 => a < b

\* an undated item between an item dated after the epoch and one dated
\* before it
C23_Witness ==
    /\ pc = "publish"
    /\ \E a, b, c \in DOMAIN all_items :
          /\ b < a /\ a < c
          /\ Undated(a)
          /\ ~Undated(b) /\ DatedAt(b) > 0
          /\ ~Undated(c) /\ DatedAt(c) < 0

Started(i) == task[i].st \in {"running", "finished"}

\* C25: the validators a fetch task sends are those of the metadata file as
\* it was loaded at the start of the run, whenever the task started and
\* whatever the coordinator has merged into its dict by then.
C25_TasksSeeLoadedMeta ==
    \A i \in DOMAIN task :
        Started(i) => task[i].sent = MetaGet(disk_meta, task[i].url)

\* the coordinator has merged a result into its dict while a task that the
\* budget left behind has sent validators of its own
C25_Witness ==
    /\ pc = "collect"
    /\ collected # {}
    /\ meta # disk_meta
    /\ \E i \in not_done : Started(i) /\ task[i].sent # NoEntry

FetchErrors(url) == CopiesIn(LogEv("fetch error", url, 0), log)

\* C26: a fetch task that ran to completion has returned a triple for its
\* own URL, and if its fetch failed (no response, a status other than 200
\* and 304, a 200 whose body is not XML) the triple has no items and no
\* headers and a "fetch error" line names the URL.
C26_FailuresReturnedEmptyAndLogged ==
    \A i \in DOMAIN task :
        task[i].st = "finished" =>
            /\ task[i].result.url = task[i].url
            /\ FetchFailed(task[i].reply) =>
                  /\ task[i].result.items = <<>>
                  /\ task[i].result.headers = EmptyDict
                  /\ FetchErrors(task[i].url) >= 1

FeedUrls == {feeds[k] : k \in DOMAIN feeds}
CarriedValidator(r) ==
    r.status \in {200, 304} /\ (r.headers.etag # None \/ r.headers.lm # None)

C28_StoreMonotone == [][disk_seen \subseteq disk_seen']_vars

\* C29: in every rotator run over a non-empty service list, the epoch is
\* reset exactly when the stored epoch is missing or not positive or the
\* stored service count or slice length differs from this run's; a reset
\* takes the time of the clock as the epoch; a run without a reset uses the
\* stored epoch and leaves the state file as it is; and with a positive
\* slice length the desired index is the number of whole slices elapsed
\* since the epoch, modulo the number of services, so that the k-th slice
\* [epoch + k*slice_s, epoch + (k+1)*slice_s) belongs to service k mod n.
C29_EpochAndIndex ==
    [][(last'.ran /\ last'.n > 0) =>
         LET r == last'
             k == (r.now - r.epoch) \div r.slice_s
         IN  /\ r.n = Len(services_file)
             /\ r.reset <=> \/ rot_state.epoch_ts <= 0
                            \/ rot_state.services_count # r.n
                            \/ rot_state.slice_seconds # r.slice_s
             /\ r.reset => r.epoch = clock
             /\ ~r.reset => (r.epoch = rot_state.epoch_ts /\ rot_state' = rot_state)
             /\ r.now = clock'
             /\ r.slice_s > 0 =>
                   /\ r.epoch + k * r.slice_s <= r.now
                   /\ r.now < r.epoch + (k + 1) * r.slice_s
                   /\ r.idx = k % r.n]_vars

\* a run that kept the stored epoch, in the third slice after it, with the
\* third of three services desired
C29_Witness ==
    /\ Rotated
    /\ ~last.reset
    /\ last.n = 3
    /\ last.slice_s > 0
    /\ (last.now - last.epoch) \div last.slice_s = 2
    /\ last.idx = 2

\* C30: within one run no SeenKey is posted successfully more than once,
\* and the successful posts of the run are as many as the keys the run has
\* added to the loaded set.
C30_NoKeyPostedTwice ==
    /\ \A i, j \in PostedOk : posts[i].key = posts[j].key => i = j
    /\ pc = "publish" => Cardinality(PostedOk) = Cardinality(new_seen \ seen)

\* the non-empty values a response carries for a validator, under whatever
\* spelling of the header name
Carried(raw, names) == {raw[n] : n \in DOMAIN raw \cap names} \ {""}

Merged == args.fn = "merge" /\ ret.returned

\* C31: after the merge of a response that carries only one of the two
\* validators, the feed's entry holds the carried value for that validator
\* and the cached value of the other; and a validator that was cached is
\* never absent after the merge.
C31_SingleValidatorMerged ==
    Merged =>
        LET es == Carried(args.headers, EtagNames)
            ls == Carried(args.headers, LmNames)
            old == MetaGet(args.meta, args.url)
            new == MetaGet(ret.value, args.url)
        IN  /\ (es # {} /\ ls = {}) =>
                  (new.etag \in es /\ new.last_modified = old.last_modified)
            /\ (ls # {} /\ es = {}) =>
                  (new.last_modified \in ls /\ new.etag = old.etag)
            /\ old.etag # None => new.etag # None
            /\ old.last_modified # None => new.last_modified # None
====
